---- MODULE Spec2Model ----
(***************************************************************************)
(* WS DOM Controller: the offscreen document's WebSocket endpoint          *)
(* (extension/offscreen.js) and the background service worker's command    *)
(* dispatcher, tab resolver and nav handler (background.js).               *)
(*                                                                         *)
(* Every inbound WebSocket message is one slot i \in Slots.  A slot's pc   *)
(* is the position of the asynchronous computation the message started;    *)
(* each `await` of a host-runtime call is a step boundary, so the          *)
(* computations of different messages interleave exactly where the         *)
(* JavaScript event loop lets them.                                        *)
(***************************************************************************)
EXTENDS Integers, Sequences, FiniteSets, TLC

\* ------------------------------------------------------------------ bounds
MaxMsgs == 3
MaxTabs == 2
MaxConns == 2
MaxNodes == 2
MaxAttempts == 3

\* ------------------------------------------------------- the code's constants
\* waitForTabLoad(tabId, timeoutMs = 30000)
TimeoutMs == 30000
\* setInterval(..., 250) in waitForTabLoad
PollMs == 250
\* await sleep(100) in find and in waitForIndex
SleepMs == 100
\* timeout_ms = 2000, the default of click, type and xpath
DefaultTimeoutMs == 2000
\* setTimeout(connect, 2000) in ws.onclose and in connect's catch
ReconnectMs == 2000

Slots == 1..MaxMsgs
TabIds == 1..MaxTabs
Conns == 1..MaxConns

\* --------------------------------------------------------- JavaScript values
\* A JavaScript value as far as the code distinguishes it: null/undefined, an
\* integer, or a string.
JNull == [t |-> "null", n |-> 0, s |-> ""]
JInt(k) == [t |-> "int", n |-> k, s |-> ""]
JStr(x) == [t |-> "str", n |-> 0, s |-> x]
\* crypto.randomUUID(): a fresh string, distinct from every other generated one
\* and from every caller-supplied string; `site` tells the calls apart.
RandomUUID(site) == [t |-> "uuid", n |-> site, s |-> ""]

\* Number.isInteger(v)
IsInteger(v) == v.t = "int"
\* JavaScript truthiness: null, undefined, 0 and "" are falsy.
Truthy(v) ==
  CASE v.t = "null" -> FALSE
    [] v.t = "int" -> v.n # 0
    [] v.t = "str" -> v.s # ""
    [] OTHER -> TRUE
\* a || b
OrElse(a, b) == IF Truthy(a) THEN a ELSE b

\* ------------------------------------------------------------------- state
VARIABLES
  wsState,        \* readyState of the socket the module-level `ws` refers to
  wsConn,         \* which connection `ws` refers to (0: connect() has not run)
  reconnectTimer, \* the timer `reconnectTimer` holds is pending
  sockets,        \* sockets[k]: readyState of the k-th WebSocket made ("none": not yet)
  timers,         \* the delays of the pending setTimeout(connect, ...), oldest first
  attempts,       \* how many times connect() has run
  sent,           \* the envelopes the controller received, in order
  inbox,          \* inbox[i]: the i-th inbound message
  pc,             \* pc[i]: where the computation started by message i stands
  loc,            \* loc[i]: its local variables
  tabState,       \* tabState[t]: the browser's tab t
  active,         \* id of the active tab of the last focused window, or 0
  slot,           \* chrome.storage.session[SESSION_KEY]
  page,           \* how many nodes of the page match the command's selector / expr
  profile         \* what the controller, the network and the user do in this run

vars ==
  <<wsState, wsConn, reconnectTimer, sockets, timers, attempts, sent, inbox, pc, loc,
    tabState, active, slot, page, profile>>
wsVars == <<wsState, wsConn, reconnectTimer, sockets, timers, attempts>>
tabVars == <<tabState, active, slot, page>>
msgVars == <<inbox, pc, loc, profile>>

\* ---------------------------------------------------------------- inbound
\* The handler registry: the own properties of the object literal `handlers`.
Registered == {"nav", "click", "type", "set", "exists", "get_html", "exec_js", "xpath"}
\* `handlers` is a plain object literal, so it also inherits the properties of
\* Object.prototype; these are the inherited ones that are functions.
ObjectPrototypeFunctions ==
  {"toString", "constructor", "hasOwnProperty", "valueOf", "isPrototypeOf",
   "propertyIsEnumerable", "toLocaleString"}

\* The texts a controller sends.  raw: what JSON.parse makes of the text
\* ("badjson": it throws; "null": the value null; "scalar": a number, string or
\* boolean; "object": an object).  id, cmd, tabId, reuse: the object's fields;
\* cmd is the property key the field coerces to ("undefined" when missing).
IdInputs == {JNull, JStr(""), JStr("a")}
TabIdInputs == {JNull, JStr("1"), JInt(1)}

\* index, timeout, action: the payload's index, timeout_ms and (xpath) action,
\* with the defaults the handlers give them.
\* conn: the connection the message arrived on (0 until it arrives); seen: how
\* many envelopes the controller had received when it sent the message.
NoFields(raw) ==
  [raw |-> raw, id |-> JNull, cmd |-> "undefined", tabId |-> JNull, reuse |-> TRUE,
   index |-> 0, timeout |-> DefaultTimeoutMs, action |-> "list", conn |-> 0, seen |-> 0]
\* The payloads of the commands that wait for nodes.
IndexInputs == {0, 1}
TimeoutInputs == {0, SleepMs, 2 * SleepMs + SleepMs \div 2}
ActionInputs == {"count", "exists", "click", "getText"}

\* The environment of a run.  The profiles split the runs explored, so that
\* the state space is the sum and not the product of their sizes:
\*   "wire": every kind of text and id; the controller waits for a response (or
\*           for the connection to drop) before it sends again; the connection
\*           drops and is re-established; the user leaves the tabs alone.
\*   "tabs": one id; the controller pipelines its commands, with every kind of
\*           tabId; the connection holds; the user closes tabs and the browser
\*           discards them.
\*   "session": a controller that sends up to MaxMsgs commands without a tabId,
\*           one after the other's response; the connection holds; the user
\*           closes tabs and the browser discards them.
\*   "timed": one command, a nav or one that looks for nodes in the page, with
\*           every index and timeout_ms; the clocks are observed: the model
\*           keeps Date.now() - start and performance.now() - start, every
\*           timer firing when it is due; the page's nodes come and go.
\*   "link": no command at all; the connection drops, sockets report errors
\*           and new WebSocket may throw.
\* msgs: how many messages the controller sends in the run.  errors: sockets
\* fire error events and the WebSocket constructor may throw.  clock: the run
\* keeps the elapsed times (in the other profiles they are left open: a wait
\* may time out at any tick, and the function injected into the page runs to
\* its result in one step).
Profiles ==
  {[name |-> "wire", pipelines |-> FALSE, drops |-> TRUE, tabEvents |-> FALSE,
    msgs |-> MaxMsgs - 1, clock |-> FALSE, errors |-> FALSE],
   [name |-> "tabs", pipelines |-> TRUE, drops |-> FALSE, tabEvents |-> TRUE,
    msgs |-> MaxMsgs - 1, clock |-> FALSE, errors |-> FALSE],
   [name |-> "session", pipelines |-> FALSE, drops |-> FALSE, tabEvents |-> TRUE,
    msgs |-> MaxMsgs, clock |-> FALSE, errors |-> FALSE],
   [name |-> "timed", pipelines |-> FALSE, drops |-> FALSE, tabEvents |-> TRUE,
    msgs |-> 1, clock |-> TRUE, errors |-> FALSE],
   [name |-> "link", pipelines |-> FALSE, drops |-> TRUE, tabEvents |-> FALSE,
    msgs |-> 0, clock |-> FALSE, errors |-> TRUE]}

Inbound(name) ==
  CASE name = "wire" ->
       {NoFields("badjson"), NoFields("null"), NoFields("scalar")}
       \cup {[NoFields("object") EXCEPT !.id = id, !.cmd = c] :
               id \in IdInputs, c \in {"ping", "bogus", "undefined", "toString", "click", "nav"}}
       \cup {[NoFields("object") EXCEPT !.id = id, !.cmd = "nav", !.reuse = FALSE] : id \in IdInputs}
    [] name = "tabs" ->
       {[NoFields("object") EXCEPT !.id = JStr("a"), !.cmd = "click", !.tabId = t] :
               t \in TabIdInputs}
       \cup {[NoFields("object") EXCEPT !.id = JStr("a"), !.cmd = "nav", !.tabId = t, !.reuse = r] :
               t \in {JNull, JInt(1)}, r \in BOOLEAN}
    [] name = "session" ->
       {[NoFields("object") EXCEPT !.id = JStr("a"), !.cmd = "click"]}
       \cup {[NoFields("object") EXCEPT !.id = JStr("a"), !.cmd = "nav", !.reuse = r] :
               r \in BOOLEAN}
    [] name = "link" -> {}
    [] OTHER ->
       {[NoFields("object") EXCEPT !.id = JStr("a"), !.cmd = "nav", !.reuse = r] :
               r \in BOOLEAN}
       \cup {[NoFields("object") EXCEPT
                 !.id = JStr("a"), !.cmd = "click", !.index = x, !.timeout = t] :
               x \in IndexInputs, t \in TimeoutInputs}
       \cup {[NoFields("object") EXCEPT
                 !.id = JStr("a"), !.cmd = "xpath", !.action = a, !.index = x, !.timeout = t] :
               a \in ActionInputs, x \in IndexInputs, t \in TimeoutInputs}

\* --------------------------------------------------------------- envelopes
NoError == [msg |-> "", arg |-> ""]
Error(m) == [msg |-> m, arg |-> ""]
\* An outbound envelope.  for: the inbound message whose computation sent it
\* (0: the greeting); body: which of hello / result / error it carries.
Envelope(i, id, ok, body, err, tab) ==
  [conn |-> wsConn, for |-> i, id |-> id, ok |-> ok, body |-> body, err |-> err, tab |-> tab]

\* a send that goes out whatever state the socket is in
WsSendInAnyState(env) == sent' = Append(sent, env)
\* ws.send(data) on the socket `ws` refers to now: delivered when that socket is
\* open; on a closing or closed socket the data is dropped, on a connecting one
\* send throws InvalidStateError.
WsSend(env) == sent' = IF wsState = "open" THEN Append(sent, env) ELSE sent

\* The response the background worker passes to sendResponse.
Response(id, ok, err, tab) == [id |-> id, ok |-> ok, err |-> err, tab |-> tab]
NoResponse == Response(JNull, FALSE, NoError, JNull)

\* The locals of one message's computation.
\*   id      the id assigned on receipt
\*   ctx     which call of resolveTargetTabId runs or ran last ("disp": the
\*           dispatcher's, "nav": the nav handler's)
\*   stored, live, queried, cand
\*           the running resolver's view: `stored`; what became of it ("none":
\*           no integer is stored, "no": its tab is gone or discarded, "threw":
\*           chrome.tabs.get threw, "": not looked at yet); whether
\*           chrome.tabs.query has answered; and `active.id` / `tab.id`
\*   tabId, path     what the dispatcher's resolution returned, and by which return
\*   slot0           what session storage held when the dispatcher's resolution
\*                   returned
\*   navTab, navPath the same for the nav handler's resolution or tab creation
\*   elapsed Date.now() - start of waitForTabLoad, performance.now() - start
\*           of find / waitForIndex, when the run keeps the clocks
\*   samples how many times the injected function has looked at the page
\*   count   list.length / snap.snapshotLength at the latest sample (-1: none yet)
\*   at      the await that threw, when one did
\*   resp    the response passed to sendResponse
LocInit ==
  [id |-> JNull, ctx |-> "", stored |-> JNull, live |-> "", queried |-> FALSE,
   cand |-> JNull, tabId |-> JNull, path |-> "", slot0 |-> JNull, navTab |-> JNull,
   navPath |-> "", elapsed |-> 0, samples |-> 0, count |-> -1, at |-> "", resp |-> NoResponse]

\* -------------------------------------------------------------------- Init
\* The state once offscreen.js has been evaluated: connect() has run, the first
\* socket is connecting.  The browser may or may not have an open tab, which may
\* or may not be the active tab of the last focused window (in the "wire"
\* profile it has one, and it is active).
Init ==
  /\ wsState = "connecting"
  /\ wsConn = 1
  /\ reconnectTimer = FALSE
  /\ sockets = [k \in Conns |-> IF k = 1 THEN "connecting" ELSE "none"]
  /\ timers = <<>>
  /\ attempts = 1
  /\ sent = <<>>
  /\ inbox = [i \in Slots |-> NoFields("none")]
  /\ pc = [i \in Slots |-> "idle"]
  /\ loc = [i \in Slots |-> LocInit]
  /\ profile \in Profiles
  /\ \E open \in BOOLEAN :
       /\ profile.tabEvents \/ open
       /\ tabState = [t \in TabIds |-> IF t = 1 /\ open THEN "open" ELSE "new"]
  /\ active \in {t \in TabIds : tabState[t] = "open"} \cup (IF profile.tabEvents THEN {0} ELSE {})
  /\ slot = JNull
  /\ page \in (IF profile.clock THEN 0..MaxNodes ELSE {0})

\* ---------------------------------------------------- offscreen.js: socket
\* ws.onopen: clearTimeout(reconnectTimer) takes the timer last set out of
\* the pending ones, when it is still there
OnOpen ==
  /\ wsState = "connecting"
  /\ wsState' = "open"
  /\ sockets' = [sockets EXCEPT ![wsConn] = "open"]
  /\ reconnectTimer' = FALSE
  /\ timers' = IF reconnectTimer /\ timers # <<>>
               THEN SubSeq(timers, 1, Len(timers) - 1) ELSE timers
  /\ sent' = Append(sent, [Envelope(0, RandomUUID(-wsConn), TRUE, "hello", NoError, JNull)
                             EXCEPT !.conn = wsConn])
  /\ UNCHANGED <<wsConn, attempts, msgVars, tabVars>>

\* ws.onclose: the socket closed, or the connection attempt failed;
\* reconnectTimer = setTimeout(connect, 2000)
OnClose ==
  /\ profile.drops
  /\ wsState \in {"connecting", "open", "closing"}
  /\ wsState' = "closed"
  /\ sockets' = [sockets EXCEPT ![wsConn] = "closed"]
  /\ reconnectTimer' = TRUE
  /\ timers' = Append(timers, ReconnectMs)
  /\ UNCHANGED <<wsConn, attempts, sent, msgVars, tabVars>>

\* an error handler that schedules a reconnect of its own
OnErrorSchedules ==
  /\ profile.errors
  /\ wsState \in {"connecting", "open"}
  /\ wsState' = "closing"
  /\ sockets' = [sockets EXCEPT ![wsConn] = "closing"]
  /\ reconnectTimer' = TRUE
  /\ timers' = Append(timers, ReconnectMs)
  /\ UNCHANGED <<wsConn, attempts, sent, msgVars, tabVars>>
\* ws.onerror: try { ws.close() } catch {}.  The socket starts closing; its
\* close event follows.
OnError ==
  /\ profile.errors
  /\ wsState \in {"connecting", "open"}
  /\ wsState' = "closing"
  /\ sockets' = [sockets EXCEPT ![wsConn] = "closing"]
  /\ UNCHANGED <<wsConn, reconnectTimer, timers, attempts, sent, msgVars, tabVars>>

\* connect(), run by the oldest pending timer: ws = new WebSocket(WS_URL)
Connect ==
  /\ timers # <<>>
  /\ attempts < MaxAttempts
  /\ wsConn < MaxConns
  /\ attempts' = attempts + 1
  /\ wsConn' = wsConn + 1
  /\ wsState' = "connecting"
  /\ sockets' = [sockets EXCEPT ![wsConn + 1] = "connecting"]
  /\ timers' = Tail(timers)
  /\ reconnectTimer' = IF Len(timers) = 1 THEN FALSE ELSE reconnectTimer
  /\ UNCHANGED <<sent, msgVars, tabVars>>

\* connect(), run by the oldest pending timer, when new WebSocket throws:
\* catch (e) { reconnectTimer = setTimeout(connect, 2000) }
ConnectThrows ==
  /\ profile.errors
  /\ timers # <<>>
  /\ attempts < MaxAttempts
  /\ attempts' = attempts + 1
  /\ timers' = Append(Tail(timers), ReconnectMs)
  /\ reconnectTimer' = TRUE
  /\ UNCHANGED <<wsState, wsConn, sockets, sent, msgVars, tabVars>>

\* JSON.parse(event.data) throws
ParseFails(m) == m.raw = "badjson"
\* const id = msg.id || crypto.randomUUID(); a number, string or boolean has no
\* property id
AssignId(m, i) == OrElse(m.id, RandomUUID(i))
\* the ping branch left out
IsPingNever(cmd) == FALSE
\* if (cmd === 'ping')
IsPing(cmd) == cmd = "ping"

\* ws.onmessage: the synchronous part, up to the relay to the background worker
OnMessage(i) ==
  /\ wsState = "open"
  /\ pc[i] = "idle"
  /\ i <= profile.msgs
  /\ \A j \in Slots : j < i => pc[j] # "idle"
  /\ profile.pipelines \/ \A j \in Slots : j < i => pc[j] \in {"done", "threw"}
  /\ \E m \in Inbound(profile.name) :
       /\ inbox' = [inbox EXCEPT ![i] = [m EXCEPT !.conn = wsConn, !.seen = Len(sent)]]
       /\ CASE ParseFails(m) ->
                 \* JSON.parse threw
                 /\ WsSend(Envelope(i, JNull, FALSE, "error", Error("Invalid JSON received"), JNull))
                 /\ pc' = [pc EXCEPT ![i] = "done"]
                 /\ loc' = loc
            [] m.raw = "null" ->
                 \* msg.id on null throws a TypeError nothing catches
                 /\ pc' = [pc EXCEPT ![i] = "threw"]
                 /\ UNCHANGED <<sent, loc>>
            [] OTHER ->
                 LET id == AssignId(m, i) IN
                 IF IsPing(m.cmd)
                 THEN /\ WsSend(Envelope(i, id, TRUE, "pong", NoError, JNull))
                      /\ pc' = [pc EXCEPT ![i] = "done"]
                      /\ loc' = loc
                 ELSE /\ pc' = [pc EXCEPT ![i] = "relay"]
                      /\ loc' = [loc EXCEPT ![i].id = id]
                      /\ sent' = sent
  /\ UNCHANGED <<wsVars, tabVars, profile>>

\* ------------------------------------------------------------ browser tabs
\* A tab is "new" (not created yet), "loading", "open" (its status is
\* 'complete'), "discarded" or "closed".
\* chrome.tabs.get(t) resolves for a tab that exists (loading, open or discarded)
TabExists(t) == t \in TabIds /\ tabState[t] \in {"loading", "open", "discarded"}
\* tab?.status === 'complete'
TabComplete(t) == t \in TabIds /\ tabState[t] = "open"
\* the id chrome.tabs.create gives the next tab: ids are never reused
FreshTabs == {t \in TabIds : tabState[t] = "new" /\ \A u \in TabIds : u < t => tabState[u] # "new"}

\* The user closes a tab.
CloseTab(t) ==
  /\ profile.tabEvents
  /\ TabExists(t)
  /\ tabState' = [tabState EXCEPT ![t] = "closed"]
  /\ active' = IF active = t THEN 0 ELSE active
  /\ UNCHANGED <<wsVars, sent, msgVars, slot, page>>

\* The tab finishes loading: chrome.tabs.onUpdated fires with status
\* 'complete', and the onUpdated listener of every waitForTabLoad that waits
\* for this tab resolves its promise.
TabLoaded(t) ==
  /\ t \in TabIds /\ tabState[t] = "loading"
  /\ tabState' = [tabState EXCEPT ![t] = "open"]
  /\ pc' = [i \in Slots |->
              IF pc[i] = "n_wait" /\ loc[i].navTab = JInt(t) THEN "n_get" ELSE pc[i]]
  /\ UNCHANGED <<wsVars, sent, inbox, loc, profile, active, slot, page>>

\* The browser discards a background tab.
DiscardTab(t) ==
  /\ profile.tabEvents
  /\ t \in TabIds /\ tabState[t] = "open" /\ t # active
  /\ tabState' = [tabState EXCEPT ![t] = "discarded"]
  /\ UNCHANGED <<wsVars, sent, msgVars, active, slot, page>>

\* ------------------------------------------------- background.js: dispatch
\* a lookup that finds a handler under every name
HandlerLookupAnything(cmd) == TRUE
\* handlers[cmd]: truthy for the own and for the inherited properties
HandlerLookup(cmd) == cmd \in Registered \cup ObjectPrototypeFunctions

\* The resolver's scratch variables go out of scope when it returns or throws.
Scratch(l) == [l EXCEPT !.stored = JNull, !.live = "", !.queried = FALSE, !.cand = JNull]

\* catch (e) { sendResponse({ id: msg.id, ok: false, error: e?.message || String(e) }) }
\* at: the await that threw.
ThrowFrom(i, l, at, err) ==
  /\ pc' = [pc EXCEPT ![i] = "resp"]
  /\ loc' = [loc EXCEPT ![i] =
               [Scratch(l) EXCEPT !.at = at, !.resp = Response(l.id, FALSE, err, JNull)]]
Throw(i, at, err) == ThrowFrom(i, loc[i], at, err)

\* sendResponse({ id, ok: true, result: { tabId, ... } })
Succeed(i, l, tab) ==
  /\ pc' = [pc EXCEPT ![i] = "resp"]
  /\ loc' = [loc EXCEPT ![i] = [l EXCEPT !.resp = Response(l.id, TRUE, NoError, tab)]]

\* What runs when resolveTargetTabId returns T by the return statement `path`,
\* up to the caller's next await.
Resolved(i, T, path) ==
  IF loc[i].ctx = "nav"
  THEN \* nav: tabId = maybe; await chrome.tabs.update(tabId, ...)
       /\ pc' = [pc EXCEPT ![i] = "n_update"]
       /\ loc' = [loc EXCEPT ![i] = [Scratch(loc[i]) EXCEPT !.navTab = T, !.navPath = path]]
  ELSE LET l == [Scratch(loc[i]) EXCEPT
                   !.tabId = T, !.path = path,
                   !.slot0 = IF path \in {"active", "created"} THEN T ELSE slot] IN
       CASE inbox[i].cmd = "nav" /\ inbox[i].reuse ->
              \* handlers.nav: await resolveTargetTabId()
              /\ pc' = [pc EXCEPT ![i] = "r_get"]
              /\ loc' = [loc EXCEPT ![i] = [l EXCEPT !.ctx = "nav"]]
         [] inbox[i].cmd = "nav" /\ ~inbox[i].reuse ->
              \* handlers.nav: await chrome.tabs.create(...)
              /\ pc' = [pc EXCEPT ![i] = "n_create"]
              /\ loc' = [loc EXCEPT ![i] = l]
         [] inbox[i].cmd \in Registered \ {"nav"} ->
              \* handlers[cmd](payload, tabId): await runInPage(tabId, ...)
              /\ pc' = [pc EXCEPT ![i] = "h_run"]
              /\ loc' = [loc EXCEPT ![i] = l]
         [] OTHER ->
              \* an inherited function: it returns at once, and its value is spread
              \* into the result
              Succeed(i, l, T)

\* The relay fails: the sendMessage callback runs with chrome.runtime.lastError
RelayFail(i) ==
  /\ pc[i] = "relay"
  /\ WsSend(Envelope(i, loc[i].id, FALSE, "error", Error("lastError"), JNull))
  /\ pc' = [pc EXCEPT ![i] = "done"]
  /\ loc' = [loc EXCEPT ![i] = LocInit]
  /\ UNCHANGED <<wsVars, inbox, profile, tabVars>>

\* chrome.runtime.onMessage listener, up to its first await
BgListener(i) ==
  /\ pc[i] = "relay"
  /\ IF ~HandlerLookup(inbox[i].cmd)
     THEN Throw(i, "lookup", [msg |-> "Unknown cmd: ", arg |-> inbox[i].cmd])
     ELSE IF IsInteger(inbox[i].tabId)
     THEN Resolved(i, inbox[i].tabId, "override")
     ELSE /\ pc' = [pc EXCEPT ![i] = "r_get"]
          /\ loc' = [loc EXCEPT ![i].ctx = "disp"]
  /\ UNCHANGED <<wsVars, sent, inbox, profile, tabVars>>

\* ------------------------------------------- background.js: tab resolution
\* the discarded flag not looked at
TabUsableThoughDiscarded(t) == TabExists(t)
\* if (tab && !tab.discarded)
TabUsable(t) == TabExists(t) /\ tabState[t] # "discarded"

\* const stored = await getStoredTabId()
ResolveGetStored(i) ==
  /\ pc[i] = "r_get"
  /\ \/ /\ pc' = [pc EXCEPT ![i] = IF IsInteger(slot) THEN "r_tab" ELSE "r_query"]
        /\ loc' = [loc EXCEPT ![i].stored = slot,
                              ![i].live = IF IsInteger(slot) THEN "" ELSE "none"]
     \/ Throw(i, "storage.get", Error("host"))
  /\ UNCHANGED <<wsVars, sent, inbox, profile, tabVars>>

\* try { const tab = await chrome.tabs.get(stored); if (tab && !tab.discarded) return stored } catch {}
ResolveGetTab(i) ==
  /\ pc[i] = "r_tab"
  /\ \/ /\ TabUsable(loc[i].stored.n)
        /\ Resolved(i, loc[i].stored, "stored")
     \/ \* the tab is discarded, or chrome.tabs.get threw: the tab is gone
        /\ ~TabUsable(loc[i].stored.n)
        /\ pc' = [pc EXCEPT ![i] = "r_query"]
        /\ loc' = [loc EXCEPT ![i].live = "no"]
     \/ \* chrome.tabs.get threw for another reason
        /\ pc' = [pc EXCEPT ![i] = "r_query"]
        /\ loc' = [loc EXCEPT ![i].live = "threw"]
  /\ UNCHANGED <<wsVars, sent, inbox, profile, tabVars>>

\* const [active] = await chrome.tabs.query({ active: true, lastFocusedWindow: true })
ResolveQuery(i) ==
  /\ pc[i] = "r_query"
  /\ \/ /\ pc' = [pc EXCEPT ![i] = IF Truthy(JInt(active)) THEN "r_set_active" ELSE "r_create"]
        /\ loc' = [loc EXCEPT ![i].queried = TRUE,
                              ![i].cand = IF Truthy(JInt(active)) THEN JInt(active) ELSE JNull]
     \/ Throw(i, "tabs.query", Error("host"))
  /\ UNCHANGED <<wsVars, sent, inbox, profile, tabVars>>

\* const tab = await chrome.tabs.create({ url: 'about:blank', active: true })
\* (a blank tab has nothing to load: it counts as complete from the start)
ResolveCreate(i) ==
  /\ pc[i] = "r_create"
  /\ \/ \E t \in FreshTabs :
          /\ tabState' = [tabState EXCEPT ![t] = "open"]
          /\ active' = t
          /\ pc' = [pc EXCEPT ![i] = "r_set_created"]
          /\ loc' = [loc EXCEPT ![i].cand = JInt(t)]
     \/ /\ Throw(i, "tabs.create", Error("host"))
        /\ UNCHANGED <<tabState, active>>
  /\ UNCHANGED <<wsVars, sent, inbox, profile, slot, page>>

\* await setStoredTabId(active.id); return active.id
\* await setStoredTabId(tab.id);    return tab.id
ResolveSetStored(i) ==
  /\ pc[i] \in {"r_set_active", "r_set_created"}
  /\ \/ /\ slot' = loc[i].cand
        /\ Resolved(i, loc[i].cand, IF pc[i] = "r_set_active" THEN "active" ELSE "created")
     \/ /\ Throw(i, "storage.set", Error("host"))
        /\ slot' = slot
  /\ UNCHANGED <<wsVars, sent, inbox, profile, tabState, active, page>>

\* ----------------------------------------------- background.js: handlers.nav
\* reuse: await chrome.tabs.update(tabId, { url: url || 'about:blank', active: true })
NavUpdate(i) ==
  /\ pc[i] = "n_update"
  /\ \/ /\ TabExists(loc[i].navTab.n)
        /\ tabState' = [tabState EXCEPT ![loc[i].navTab.n] = "loading"]
        /\ active' = loc[i].navTab.n
        /\ pc' = [pc EXCEPT ![i] = "n_set"]
        /\ loc' = loc
     \/ /\ Throw(i, "tabs.update", Error("host"))
        /\ UNCHANGED <<tabState, active>>
  /\ UNCHANGED <<wsVars, sent, inbox, profile, slot, page>>

\* !reuse: const tab = await chrome.tabs.create({ url: url || 'about:blank', active: true })
NavCreate(i) ==
  /\ pc[i] = "n_create"
  /\ \/ \E t \in FreshTabs :
          /\ tabState' = [tabState EXCEPT ![t] = "loading"]
          /\ active' = t
          /\ pc' = [pc EXCEPT ![i] = "n_set"]
          /\ loc' = [loc EXCEPT ![i].navTab = JInt(t), ![i].navPath = "fresh"]
     \/ /\ Throw(i, "nav.create", Error("host"))
        /\ UNCHANGED <<tabState, active>>
  /\ UNCHANGED <<wsVars, sent, inbox, profile, slot, page>>

\* await setStoredTabId(tabId)
NavSetStored(i) ==
  /\ pc[i] = "n_set"
  /\ \/ /\ slot' = loc[i].navTab
        /\ pc' = [pc EXCEPT ![i] = "n_wait"]
        /\ loc' = loc
     \/ /\ Throw(i, "nav.set", Error("host"))
        /\ slot' = slot
  /\ UNCHANGED <<wsVars, sent, inbox, profile, tabState, active, page>>

\* Date.now() - start > timeoutMs, e being Date.now() - start: either value when
\* the run does not keep the clock
Expired(e) == IF profile.clock THEN {e > TimeoutMs} ELSE BOOLEAN

\* await waitForTabLoad(tabId), one firing of its setInterval callback: past
\* the timeout it rejects; else it looks the tab up and resolves when the
\* tab's status is 'complete' (a lookup that throws is ignored)
NavWait(i) ==
  /\ pc[i] = "n_wait"
  /\ LET e == IF profile.clock THEN loc[i].elapsed + PollMs ELSE loc[i].elapsed
         l == [loc[i] EXCEPT !.elapsed = e]
     IN \E expired \in Expired(e) :
          IF expired
          THEN ThrowFrom(i, l, "nav.wait", Error("Timeout waiting for tab to load"))
          ELSE /\ pc' = [pc EXCEPT ![i] = IF TabComplete(l.navTab.n) THEN "n_get" ELSE "n_wait"]
               /\ loc' = [loc EXCEPT ![i] = l]
  /\ UNCHANGED <<wsVars, sent, inbox, profile, tabVars>>

\* const tab = await chrome.tabs.get(tabId); return { tabId, url, ok: true }
NavGetTab(i) ==
  /\ pc[i] = "n_get"
  /\ \/ /\ TabExists(loc[i].navTab.n)
        /\ Succeed(i, loc[i], loc[i].navTab)
     \/ /\ ~TabExists(loc[i].navTab.n)
        /\ Throw(i, "nav.get", Error("No tab with id"))
     \/ Throw(i, "nav.get", Error("host"))
  /\ UNCHANGED <<wsVars, sent, inbox, profile, tabVars>>

\* ------------------------------------- background.js: the other handlers
\* a handler that remembers the tab it ran in
HandlerSlotRemembersTab(i) == loc[i].tabId
\* What a handler other than nav leaves in the session storage slot: none of
\* them calls setStoredTabId.
HandlerSlot(i) == slot

\* while (performance.now() - start < timeout)
InWindow(elapsed, timeout) == elapsed < timeout

\* a sample that is content with any number of matches
FoundAnything(n, idx) == TRUE
\* list.length > idx  /  snap.snapshotLength > idx
Found(n, idx) == n > idx

\* an xpath command that waits whatever its action
NeedsIndexAlways(action) == TRUE
\* const needsIndex = [...].includes(action)
NeedsIndex(action) ==
  action \in {"click", "getAttribute", "getHTML", "getText", "setValue", "type"}

\* The command's in-page function waits for its element (find / waitForIndex).
Waits(m) == m.cmd \in {"click", "type"} \/ (m.cmd = "xpath" /\ NeedsIndex(m.action))

\* `Element not found: ${selector}[${index}]`
ElementNotFound(idx) == [msg |-> "Element not found", arg |-> ToString(idx)]
\* What the xpath action throws when nth(index) is null: ensureElement's error,
\* or the action's own
NoNode(action) ==
  IF action \in {"getText", "setValue"} THEN Error("No node at index")
  ELSE Error("Target is not an element node")

\* await handlers[cmd](payload, tabId): runInPage resolves or rejects.  When
\* the run keeps the clock, this is the start of the in-page function: one
\* with an element wait takes `start`; an xpath list / exists / count
\* evaluates the expression once, and returns.
HandlerRun(i) ==
  /\ pc[i] = "h_run"
  /\ \/ /\ TabExists(loc[i].tabId.n)
        /\ IF ~profile.clock
           THEN Succeed(i, loc[i], loc[i].tabId)
           ELSE IF Waits(inbox[i])
           THEN /\ pc' = [pc EXCEPT ![i] = "p_loop"]
                /\ loc' = [loc EXCEPT ![i].elapsed = 0, ![i].samples = 0]
           ELSE Succeed(i, [loc[i] EXCEPT !.samples = 1, !.count = page], loc[i].tabId)
     \/ Throw(i, "handler", Error("handler"))
  /\ slot' = HandlerSlot(i)
  /\ UNCHANGED <<wsVars, sent, inbox, profile, tabState, active, page>>

\* find / waitForIndex, from the loop's test to its next await or return.
\* Inside the window it samples the page, and returns the element when there
\* are enough matches; past the window find returns null and the command
\* throws, while waitForIndex evaluates the expression once more and the
\* action looks for its node in that snapshot.  A tab that went away takes the
\* function with it: executeScript rejects.
PageLoop(i) ==
  /\ pc[i] = "p_loop"
  /\ LET m == inbox[i]
         l == [loc[i] EXCEPT !.samples = @ + 1, !.count = page]
     IN IF ~TabExists(loc[i].tabId.n)
        THEN Throw(i, "handler", Error("handler"))
        ELSE IF InWindow(loc[i].elapsed, m.timeout)
        THEN IF Found(page, m.index)
             THEN Succeed(i, l, loc[i].tabId)
             ELSE /\ pc' = [pc EXCEPT ![i] = "p_sleep"]
                  /\ loc' = [loc EXCEPT ![i] = l]
        ELSE IF m.cmd = "xpath"
        THEN IF m.index >= page
             THEN ThrowFrom(i, l, "page", NoNode(m.action))
             ELSE Succeed(i, l, loc[i].tabId)
        ELSE Throw(i, "page", ElementNotFound(m.index))
  /\ UNCHANGED <<wsVars, sent, inbox, profile, tabVars>>

\* await sleep(100)
PageSleep(i) ==
  /\ pc[i] = "p_sleep"
  /\ pc' = [pc EXCEPT ![i] = "p_loop"]
  /\ loc' = [loc EXCEPT ![i].elapsed = @ + SleepMs]
  /\ UNCHANGED <<wsVars, sent, inbox, profile, tabVars>>

\* The page changes under a command that waits: matching nodes come or go.
PageChange ==
  /\ profile.clock
  /\ \E i \in Slots : pc[i] \in {"p_loop", "p_sleep"}
  /\ \E n \in 0..MaxNodes : n # page /\ page' = n
  /\ UNCHANGED <<wsVars, sent, inbox, pc, loc, profile, tabState, active, slot>>

\* --------------------------------------- offscreen.js: sendMessage callback
\* ws.send(JSON.stringify(response))
Respond(i) ==
  /\ pc[i] = "resp"
  /\ LET r == loc[i].resp IN
       WsSend(Envelope(i, r.id, r.ok, IF r.ok THEN "result" ELSE "error", r.err, r.tab))
  /\ pc' = [pc EXCEPT ![i] = "done"]
  /\ loc' = [loc EXCEPT ![i] = LocInit]
  /\ UNCHANGED <<wsVars, inbox, profile, tabVars>>

\* ----------------------------------------------------------- specification
Next ==
  \/ OnOpen
  \/ OnClose
  \/ OnError
  \/ Connect
  \/ ConnectThrows
  \/ \E i \in Slots : OnMessage(i)
  \/ \E i \in Slots : RelayFail(i)
  \/ \E i \in Slots : BgListener(i)
  \/ \E i \in Slots : ResolveGetStored(i)
  \/ \E i \in Slots : ResolveGetTab(i)
  \/ \E i \in Slots : ResolveQuery(i)
  \/ \E i \in Slots : ResolveCreate(i)
  \/ \E i \in Slots : ResolveSetStored(i)
  \/ \E i \in Slots : NavUpdate(i)
  \/ \E i \in Slots : NavCreate(i)
  \/ \E i \in Slots : NavSetStored(i)
  \/ \E i \in Slots : NavWait(i)
  \/ \E i \in Slots : NavGetTab(i)
  \/ \E i \in Slots : HandlerRun(i)
  \/ \E i \in Slots : PageLoop(i)
  \/ \E i \in Slots : PageSleep(i)
  \/ \E i \in Slots : Respond(i)
  \/ \E t \in TabIds : TabLoaded(t)
  \/ \E t \in TabIds : CloseTab(t)
  \/ \E t \in TabIds : DiscardTab(t)
  \/ PageChange

Spec == Init /\ [][Next]_vars

\* ================================================================== claims
\* The envelopes the computation of message i sent.
EnvelopesFor(i) == {k \in DOMAIN sent : sent[k].for = i}
\* JSON.parse gave a value for message i.
Parsed(i) == inbox[i].raw \in {"null", "scalar", "object"}
\* The inbound message carries an id (any string, the empty one included).
CarriesId(i) == inbox[i].id # JNull
\* The id the response to message i is to carry: the caller's, or the one
\* generated on receipt when the message carries none.
ExpectedId(i) == IF CarriesId(i) THEN inbox[i].id ELSE RandomUUID(i)
\* The connection message i arrived on is still open.
ConnStayedOpen(i) == wsState = "open" /\ wsConn = inbox[i].conn
\* The computation of message i has ended.
Ended(i) == pc[i] \in {"done", "threw"}

\* C1: while the connection stays open, an inbound message with a registered
\* cmd produces exactly one outbound envelope (never two; one once its
\* computation has ended), and the envelope's id is the inbound message's id,
\* or the id generated on receipt when the message carried none.
C1_ExactlyOneEnvelopeWithInboundId ==
  \A i \in Slots :
    (inbox[i].raw = "object" /\ inbox[i].cmd \in Registered) =>
      /\ Cardinality(EnvelopesFor(i)) <= 1
      /\ \A k \in EnvelopesFor(i) : sent[k].id = ExpectedId(i)
      /\ (Ended(i) /\ ConnStayedOpen(i)) => Cardinality(EnvelopesFor(i)) = 1

\* C1, with "carried none" read as the code reads it (a falsy id counts as
\* none): the part of C1 the code keeps.
C1_ExactlyOneEnvelopeWithAssignedId ==
  \A i \in Slots :
    (inbox[i].raw = "object" /\ inbox[i].cmd \in Registered) =>
      /\ Cardinality(EnvelopesFor(i)) <= 1
      /\ \A k \in EnvelopesFor(i) : sent[k].id = OrElse(inbox[i].id, RandomUUID(i))
      /\ (Ended(i) /\ ConnStayedOpen(i)) => Cardinality(EnvelopesFor(i)) = 1

\* C2: an inbound message whose cmd is no registered command (ping excepted) is
\* answered by the dispatcher with ok: false and an error naming the cmd, and
\* no handler runs for it (an envelope that reports a failure of the host
\* runtime or of the relay is left aside).
C2_UnknownCmdRejected ==
  \A i \in Slots :
    (inbox[i].raw \in {"scalar", "object"} /\ inbox[i].cmd \notin Registered \cup {"ping"}) =>
      /\ pc[i] \notin {"h_run", "n_update", "n_create", "n_set", "n_wait", "n_get"}
      /\ Cardinality(EnvelopesFor(i)) <= 1
      /\ \A k \in EnvelopesFor(i) :
           sent[k].err.msg \notin {"lastError", "host"} =>
             /\ ~sent[k].ok
             /\ sent[k].err = [msg |-> "Unknown cmd: ", arg |-> inbox[i].cmd]

\* C3: an id is generated only when the inbound message carries none: every id
\* the caller supplies (the empty string included) appears unchanged in the
\* outbound envelope.
C3_SuppliedIdPropagated ==
  \A i \in Slots : \A k \in EnvelopesFor(i) :
    (inbox[i].raw = "object") =>
      /\ CarriesId(i) => sent[k].id = inbox[i].id
      /\ sent[k].id.t = "uuid" => ~CarriesId(i)

\* C4: a text that fails to parse gets exactly one envelope {id: null, ok:
\* false, error} and is never relayed; an envelope has id null only then; every
\* text that parses, whatever JSON value it is, gets an envelope with a
\* non-null id.
C4_NullIdIffParseFailure ==
  \A i \in Slots :
    /\ inbox[i].raw = "badjson" =>
         /\ pc[i] = "done"
         /\ Cardinality(EnvelopesFor(i)) <= 1
         /\ ConnStayedOpen(i) => Cardinality(EnvelopesFor(i)) = 1
         /\ \A k \in EnvelopesFor(i) :
              sent[k].id = JNull /\ ~sent[k].ok /\ sent[k].body = "error"
    /\ \A k \in EnvelopesFor(i) : sent[k].id = JNull => inbox[i].raw = "badjson"
    /\ (Parsed(i) /\ Ended(i) /\ ConnStayedOpen(i)) =>
         \E k \in EnvelopesFor(i) : sent[k].id # JNull

\* C5: a failure (a handler or the tab resolution throws, or the relay fails)
\* is reported by exactly one envelope {id: <original id>, ok: false, error:
\* <message>}.
C5_FailureReportedWithOriginalId ==
  \A i \in Slots :
    Parsed(i) =>
      /\ Cardinality(EnvelopesFor(i)) <= 1
      /\ \A k \in EnvelopesFor(i) :
           sent[k].body = "error" =>
             ~sent[k].ok /\ sent[k].err.msg # "" /\ sent[k].id = ExpectedId(i)
      /\ (pc[i] = "done" /\ ConnStayedOpen(i)) => Cardinality(EnvelopesFor(i)) = 1

\* The step in which message i arrives.
Arrives(i) == pc[i] = "idle" /\ pc'[i] # "idle"

\* What the step in which a ping arrives does.
C6_PingStep(i) ==
  (Arrives(i) /\ inbox'[i].raw = "object" /\ inbox'[i].cmd = "ping") =>
    /\ pc'[i] = "done"
    /\ \E id \in {inbox'[i].id, RandomUUID(i)} :
         /\ id # JNull
         /\ sent' = Append(sent, [conn |-> wsConn, for |-> i, id |-> id, ok |-> TRUE,
                                  body |-> "pong", err |-> NoError, tab |-> JNull])
    /\ UNCHANGED <<tabState, active, slot>>

\* C6: a ping is answered by the transport endpoint itself, in the step it
\* arrives in, with {id, ok: true, result: "pong"}; it is never relayed to the
\* dispatcher, and the step leaves the tabs and the remembered tab id as they
\* were.
C6_PingAnsweredByEndpoint == [][\A i \in Slots : C6_PingStep(i)]_vars

\* C6 witness: a ping has been answered with pong.
C6_Witness ==
  \E i \in Slots : \E k \in EnvelopesFor(i) :
    inbox[i].cmd = "ping" /\ sent[k].body = "pong" /\ sent[k].ok /\ pc[i] = "done"

\* In this step the dispatcher's call of resolveTargetTabId returns.
DispReturns(i) == loc[i].path = "" /\ loc'[i].path # ""
\* In this step the nav handler's call of resolveTargetTabId returns.
NavResolveReturns(i) ==
  loc[i].navPath = "" /\ loc'[i].navPath \in {"override", "stored", "active", "created"}
\* The preferredId of the call of resolveTargetTabId message i is in: the nav
\* handler calls it without one.
PreferredId(i) == IF loc[i].ctx = "nav" THEN JNull ELSE inbox[i].tabId
\* The resolver found the remembered tab id unavailable.
RememberedUnavailable(l) == l.live \in {"none", "no", "threw"}

\* A return of the resolver with T by `path`, the resolver's view being l,
\* follows the precedence.
C7_Return(pref, l, T, path) ==
  CASE path = "override" -> IsInteger(pref) /\ T = pref
    [] path = "stored" ->
         /\ ~IsInteger(pref)
         /\ IsInteger(l.stored) /\ T = l.stored
         /\ TabExists(T.n) /\ tabState[T.n] # "discarded"
    [] path = "active" ->
         /\ ~IsInteger(pref)
         /\ RememberedUnavailable(l)
         /\ l.queried /\ IsInteger(l.cand) /\ T = l.cand
    [] path = "created" ->
         /\ ~IsInteger(pref)
         /\ RememberedUnavailable(l)
         /\ l.queried /\ IsInteger(l.cand) /\ T = l.cand
    [] OTHER -> FALSE

C7_Step(i) ==
  /\ DispReturns(i) => C7_Return(inbox[i].tabId, loc[i], loc'[i].tabId, loc'[i].path)
  /\ NavResolveReturns(i) => C7_Return(JNull, loc[i], loc'[i].navTab, loc'[i].navPath)
  \* the remembered id is what the slot holds when it is read
  /\ (pc[i] = "r_get" /\ pc'[i] \in {"r_tab", "r_query"}) =>
       /\ ~IsInteger(PreferredId(i))
       /\ loc'[i].stored = slot
       /\ pc'[i] = "r_tab" <=> IsInteger(slot)
  \* a usable remembered tab is passed over only when the lookup throws
  /\ (pc[i] = "r_tab" /\ pc'[i] = "r_query" /\ loc'[i].live # "threw") =>
       ~(TabExists(loc[i].stored.n) /\ tabState[loc[i].stored.n] # "discarded")
  \* the active tab is taken when there is one
  /\ (pc[i] = "r_query" /\ loc'[i].queried) =>
       /\ RememberedUnavailable(loc[i])
       /\ active # 0 => pc'[i] = "r_set_active" /\ loc'[i].cand = JInt(active)
       /\ active = 0 => pc'[i] = "r_create"
  \* a tab is created only when the three earlier sources are unavailable
  /\ (pc[i] = "r_create" /\ pc'[i] = "r_set_created") =>
       /\ ~IsInteger(PreferredId(i))
       /\ RememberedUnavailable(loc[i])
       /\ loc[i].queried /\ loc[i].cand = JNull
       /\ \E t \in TabIds :
            tabState[t] = "new" /\ tabState'[t] = "open" /\ loc'[i].cand = JInt(t)
  /\ (pc'[i] = "r_set_created" /\ pc[i] # "r_set_created") => pc[i] = "r_create"

\* C7: resolve(preferredId) returns preferredId unchanged when it is an
\* integer; otherwise the remembered tab id if its tab exists and is not
\* discarded; otherwise the id of the active tab of the last focused window if
\* there is one; otherwise the id of a newly created tab, which is created only
\* when the three earlier sources are unavailable.
C7_ResolutionPrecedence == [][\A i \in Slots : C7_Step(i)]_vars

\* C7 witness: a resolution has fallen through the three earlier sources and
\* returned a tab it created.
C7_Witness == \E i \in Slots : loc[i].path = "created" /\ IsInteger(loc[i].tabId)

C8_Return(T, path) ==
  IF path = "override" THEN slot' = slot ELSE slot' = T
C8_Step(i) ==
  /\ DispReturns(i) => C8_Return(loc'[i].tabId, loc'[i].path)
  /\ NavResolveReturns(i) => C8_Return(loc'[i].navTab, loc'[i].navPath)

\* C8: when a resolution that does not take the explicit-override path returns
\* T, the remembered tab id equals T; one that takes the override path leaves
\* the remembered tab id unchanged.
C8_RememberedIsReturned == [][\A i \in Slots : C8_Step(i)]_vars

\* The awaits of resolveTargetTabId that can throw out of it.
ResolverAwaits == {"storage.get", "tabs.query", "storage.set", "tabs.create"}

\* C9: tab resolution fails only if creating the fallback tab fails.
C9_FailsOnlyAtCreate ==
  \A i \in Slots : loc[i].at \in ResolverAwaits => loc[i].at = "tabs.create"

\* In this step message i's computation leaves one of the positions `at`.
Leaves(i, at) == pc[i] \in at /\ pc'[i] # pc[i]

\* C10: every change of the remembered tab id happens inside a call of
\* resolveTargetTabId.
C10_OnlyResolverWrites ==
  [][slot' # slot => \E i \in Slots : Leaves(i, {"r_set_active", "r_set_created"})]_vars

\* C10 as amended: every change of the remembered tab id happens inside a call
\* of resolveTargetTabId or in the nav handler's own setStoredTabId; no other
\* handler writes it.
C10_OnlyResolverAndNavWrite ==
  [][slot' # slot =>
       \E i \in Slots :
         \/ Leaves(i, {"r_set_active", "r_set_created"})
         \/ inbox[i].cmd = "nav" /\ Leaves(i, {"n_set"})]_vars

\* C10 witness: the nav handler has written the id of the tab it created.
C10_Witness ==
  \E i \in Slots :
    /\ pc[i] = "n_wait" /\ loc[i].navPath = "fresh"
    /\ slot = loc[i].navTab /\ loc[i].tabId # loc[i].navTab

\* The positions inside resolveTargetTabId.
ResolverPcs == {"r_get", "r_tab", "r_query", "r_create", "r_set_active", "r_set_created"}
\* The positions inside a handler.
HandlerPcs == {"n_update", "n_create", "n_set", "n_wait", "n_get", "h_run"}
\* The command of message i has been dispatched and has not responded yet.
InFlight(i) == pc[i] \notin {"idle", "done", "threw"}

\* The envelope k reports the success of a nav command.
IsNavSuccess(k) ==
  /\ sent[k].for # 0 /\ sent[k].ok /\ sent[k].body = "result"
  /\ inbox[sent[k].for].cmd = "nav"
\* The position in `sent` of the latest successful nav's envelope (0: none yet).
LastNavOk ==
  LET K == {k \in DOMAIN sent : IsNavSuccess(k)}
  IN IF K = {} THEN 0 ELSE CHOOSE k \in K : \A j \in K : j <= k

C12_Step(i) ==
  \* the nav handler returns {tabId: T, url, ok: true}
  \* (no other command having been in flight since the nav arrived)
  /\ (pc[i] = "n_get" /\ pc'[i] = "resp" /\ loc'[i].resp.ok
        /\ inbox[i].seen = Len(sent) /\ \A j \in Slots \ {i} : ~InFlight(j)) =>
       slot = loc'[i].resp.tab
  \* the tab of a later command that carries no tabId is resolved
  \* (no other command being in flight)
  /\ (/\ DispReturns(i)
      /\ \A j \in Slots \ {i} : ~InFlight(j)
      /\ inbox[i].cmd \in Registered \ {"nav"} /\ inbox[i].tabId = JNull
      /\ LastNavOk # 0 /\ inbox[i].seen >= LastNavOk
      /\ TabUsable(sent[LastNavOk].tab.n)) =>
       loc'[i].tabId = sent[LastNavOk].tab
  \* and its result reports the tab it ran in
  /\ (pc[i] = "h_run" /\ pc'[i] = "resp" /\ loc'[i].resp.ok) =>
       loc'[i].resp.tab = loc[i].tabId

\* C12: when a nav command succeeds with {tabId: T, url, ok: true} the
\* remembered tab id is T, and every command sent after that response without
\* a tabId runs in T (and reports tabId T) as long as T exists, is not
\* discarded, and no later nav has succeeded.
C12_NavTabIsUsedAfterwards == [][\A i \in Slots : C12_Step(i)]_vars

\* C13: commands are processed one at a time: no two are in flight together,
\* and the responses are emitted in the order the commands arrived in.
C13_OneAtATime ==
  /\ \A i, j \in Slots : (InFlight(i) /\ InFlight(j)) => i = j
  /\ \A k1, k2 \in DOMAIN sent :
       (k1 < k2 /\ sent[k1].for # 0 /\ sent[k2].for # 0) => sent[k1].for < sent[k2].for

\* C14: the response to a command whose connection dropped is sent on no
\* connection: every envelope that answers a message is sent on the connection
\* the message was received on.
C14_ResponseOnlyOnOwnConnection ==
  \A k \in DOMAIN sent : sent[k].for # 0 => sent[k].conn = inbox[sent[k].for].conn

\* The envelopes sent on connection c.
ConnEnvelopes(c) == {k \in DOMAIN sent : sent[k].conn = c}
\* {id: <generated>, ok: true, hello: 'ws-dom-controller-online'}
IsGreeting(e) == e.for = 0 /\ e.body = "hello" /\ e.ok /\ e.id.t = "uuid" /\ e.err = NoError

\* C17: on every established connection exactly one greeting is sent, and it is
\* the first envelope on that connection.
C17_GreetingFirstAndOnce ==
  \A c \in 1..MaxConns :
    LET K == ConnEnvelopes(c)
        G == {k \in K : sent[k].body = "hello" \/ sent[k].for = 0}
    IN /\ Cardinality(G) <= 1
       /\ \A g \in G : IsGreeting(sent[g])
       /\ K # {} => \E g \in G : \A k \in K : g <= k
       /\ (wsConn = c /\ wsState = "open") => G # {}

\* C17 witness: after a reconnect, the second connection has carried its
\* greeting and then the response to a command.
C17_Witness ==
  \E k \in DOMAIN sent : sent[k].conn = MaxConns /\ sent[k].for # 0 /\ sent[k].body # "pong"

\* The dispatcher finds a function to call under the name cmd.
Callable(cmd) == cmd \in Registered \cup ObjectPrototypeFunctions

C18_Step(i) ==
  \* a command rejected as unknown is rejected straight from the lookup
  /\ (pc'[i] = "resp" /\ loc'[i].at = "lookup") =>
       /\ pc[i] \in {"relay", "resp"}
       /\ loc'[i].path = "" /\ loc'[i].navPath = ""
  \* and none of its steps touches a tab or the remembered tab id
  /\ (inbox'[i].raw \in {"scalar", "object"} /\ ~Callable(inbox'[i].cmd) /\ pc'[i] # pc[i]) =>
       /\ pc'[i] \in {"relay", "resp", "done"}
       /\ UNCHANGED <<tabState, active, slot>>
  \* a tab is resolved only for a command the dispatcher goes on to call
  /\ pc'[i] \in ResolverPcs \cup HandlerPcs => Callable(inbox'[i].cmd)

TabsCreatedBy(i) ==
  (IF loc[i].path = "created" THEN 1 ELSE 0)
    + (IF loc[i].navPath \in {"fresh", "created"} THEN 1 ELSE 0)

\* C19: processing one command creates at most one tab.
C19_AtMostOneTabPerCommand == \A i \in Slots : TabsCreatedBy(i) <= 1

\* The nav command of message i has failed after the dispatcher resolved its tab.
NavFailed(i) ==
  /\ inbox[i].cmd = "nav" /\ pc[i] = "resp" /\ ~loc[i].resp.ok
  /\ loc[i].path # ""

\* C20: a nav command that fails leaves the remembered tab id as it was after
\* the command's tab resolution (or as a re-resolution inside nav set it).
C20_FailedNavLeavesSlot ==
  \A i \in Slots :
    NavFailed(i) =>
      \/ slot = loc[i].slot0
      \/ loc[i].navPath \in {"active", "created"} /\ slot = loc[i].navTab

\* The nav command of message i has failed after its navigation was issued:
\* in the wait for the load, or in the look at the tab that follows it.
NavFailedAfterIssue(i) ==
  /\ inbox[i].cmd = "nav" /\ pc[i] = "resp" /\ ~loc[i].resp.ok
  /\ loc[i].at \in {"nav.wait", "nav.get"}

\* C11: once its navigation is issued a nav command either succeeds, the tab
\* having been seen complete, or fails with the timeout error, after the 30 s
\* bound: it ends in no other way, a closed tab included.  (A failure for a
\* reason of the host's own is not held against the statement.)
C11_CompleteOrTimeout ==
  \A i \in Slots :
    NavFailedAfterIssue(i) =>
      \/ /\ loc[i].resp.err = Error("Timeout waiting for tab to load")
         /\ profile.clock => loc[i].elapsed > TimeoutMs
      \/ loc[i].resp.err = Error("host")

\* The command of message i runs, or ran, click's in-page function.
ClickRuns(i) == profile.clock /\ inbox[i].cmd = "click"
\* The command of message i runs, or ran, the xpath in-page function.
XPathRuns(i) == profile.clock /\ inbox[i].cmd = "xpath"
\* The in-page function of message i has returned or thrown.
PageEnded(i) == pc[i] = "resp" /\ (loc[i].resp.ok \/ loc[i].at = "page")
\* When the latest sample of message i was taken, on the command's own clock.
LastSampleAt(i) == SleepMs * (loc[i].samples - 1)

\* C15: click samples the page every 100 ms, and only inside the window of
\* timeout_ms: it succeeds at the first sample that finds at least index + 1
\* matches, and fails with 'Element not found: <selector>[<index>]' otherwise,
\* never before the window has passed (as long as its tab exists).
C15_ClickPollsWithinWindow ==
  \A i \in Slots :
    ClickRuns(i) =>
      /\ pc[i] = "p_loop" => loc[i].elapsed = SleepMs * loc[i].samples
      /\ pc[i] = "p_sleep" =>
            /\ loc[i].elapsed = LastSampleAt(i)
            /\ loc[i].elapsed < inbox[i].timeout
            /\ loc[i].count <= inbox[i].index
      /\ PageEnded(i) =>
            IF loc[i].resp.ok
            THEN /\ loc[i].samples >= 1
                 /\ loc[i].elapsed = LastSampleAt(i)
                 /\ loc[i].elapsed < inbox[i].timeout
                 /\ loc[i].count >= inbox[i].index + 1
            ELSE /\ loc[i].resp.err = ElementNotFound(inbox[i].index)
                 /\ loc[i].elapsed >= inbox[i].timeout
                 /\ loc[i].samples >= 1 =>
                       /\ LastSampleAt(i) < inbox[i].timeout
                       /\ loc[i].count <= inbox[i].index

\* C15 witness: a click has sampled the page three times, 100 ms apart, and
\* then reported its element missing.
C15_Witness ==
  \E i \in Slots :
    /\ ClickRuns(i) /\ PageEnded(i)
    /\ loc[i].resp.err = ElementNotFound(inbox[i].index)
    /\ loc[i].samples = 3 /\ loc[i].elapsed = 3 * SleepMs

\* The xpath actions the statement of C16 calls index-targeting.
IndexTargeting == {"click", "getAttribute", "getHTML", "getText", "setValue", "type"}

\* C16: an xpath action that targets an index evaluates the expression every
\* 100 ms until index + 1 nodes are there or timeout_ms has passed, whichever
\* comes first; list, exists and count evaluate it exactly once and return
\* without waiting, so count on an expression without matches returns 0 at once.
C16_XPathWaitsOnlyForIndex ==
  \A i \in Slots :
    XPathRuns(i) =>
      IF inbox[i].action \in IndexTargeting
      THEN /\ pc[i] = "p_loop" => loc[i].elapsed = SleepMs * loc[i].samples
           /\ pc[i] = "p_sleep" =>
                 /\ loc[i].elapsed = LastSampleAt(i)
                 /\ loc[i].elapsed < inbox[i].timeout
                 /\ loc[i].count <= inbox[i].index
           /\ PageEnded(i) =>
                 /\ loc[i].samples >= 1
                 /\ loc[i].resp.ok <=> loc[i].count >= inbox[i].index + 1
                 /\ loc[i].count >= inbox[i].index + 1 \/ loc[i].elapsed >= inbox[i].timeout
                 /\ loc[i].elapsed < inbox[i].timeout => loc[i].elapsed = LastSampleAt(i)
      ELSE /\ pc[i] \notin {"p_loop", "p_sleep"}
           /\ PageEnded(i) =>
                 /\ loc[i].resp.ok
                 /\ loc[i].samples = 1 /\ loc[i].elapsed = 0
                 /\ loc[i].count = page

\* C16 witness: count has returned 0 for an expression without matches.
C16_Witness ==
  \E i \in Slots :
    /\ XPathRuns(i) /\ inbox[i].action = "count" /\ PageEnded(i)
    /\ loc[i].count = 0 /\ loc[i].elapsed = 0

\* The element wait of message i is at its first look at the clock, with enough
\* matching nodes in the page of a tab that exists.
StartsWithElement(i) ==
  /\ pc[i] = "p_loop" /\ loc[i].samples = 0 /\ loc[i].elapsed = 0
  /\ Waits(inbox[i]) /\ inbox[i].timeout >= 0
  /\ TabExists(loc[i].tabId.n)
  /\ page >= inbox[i].index + 1

C21_Step(i) ==
  (StartsWithElement(i) /\ pc'[i] # pc[i]) =>
    pc'[i] = "resp" /\ loc'[i].resp.ok

\* C21: every bounded element wait looks at the page at least once: whatever
\* timeout_ms >= 0 (0 included), a command that starts with at least index + 1
\* matching elements in the page finds its element and does not report it as
\* missing.
C21_WaitLooksAtLeastOnce == [][\A i \in Slots : C21_Step(i)]_vars

\* The sockets that are connecting or open.
LiveSockets == {k \in Conns : sockets[k] \in {"connecting", "open"}}
\* The sockets whose close event has not fired yet.
UnclosedSockets == {k \in Conns : sockets[k] \in {"connecting", "open", "closing"}}

\* C22: the transport endpoint keeps a single connection alive: at most one
\* socket is connecting or open and at most one reconnect timer is pending;
\* every socket that closes (after an error or not) and every connect() that
\* throws leaves exactly one connect attempt scheduled, with the fixed delay
\* of 2 s, so that whenever no socket is left a reconnect is pending.
C22_SingleConnectionKeptAlive ==
  /\ Cardinality(LiveSockets) <= 1
  /\ Len(timers) <= 1
  /\ \A j \in DOMAIN timers : timers[j] = ReconnectMs
  /\ Cardinality(UnclosedSockets) + Len(timers) = 1
  /\ reconnectTimer <=> timers # <<>>

\* C22 witness: a socket has reported an error and closed, a connect() has
\* thrown, and the one after it has made the socket that is open now.
C22_Witness ==
  /\ sockets[1] = "closed"
  /\ wsConn = MaxConns /\ sockets[wsConn] = "open"
  /\ attempts = MaxAttempts /\ attempts > wsConn

====
